---- MODULE Spec2Model ----
(***************************************************************************)
(* PlayerController of the enari engine: a record of six input flags that  *)
(* the window's key events set and clear, and a per-frame update that      *)
(* turns the flags into move / jump / shoot commands on the controlled     *)
(* pawn.                                                                   *)
(*                                                                         *)
(* Numbers.  Speeds are exact rationals [num, den].  A vector is           *)
(* [x, y, z, d] and denotes (x, y, z) / sqrt(d), so that the result of     *)
(* normalising an integer vector is represented exactly.  dt is a number   *)
(* of time units in 0 .. MaxDt.                                            *)
(*                                                                         *)
(* The pawn is external: every answer of isOnGround / canJump / canShoot / *)
(* shoot is a nondeterministic input of the action that asks for it.  The  *)
(* variable calls lists the calls the last operation made on the pawn.     *)
(***************************************************************************)
EXTENDS Integers, Sequences, FiniteSets

VARIABLES
    inputState,     \* PlayerController.inputState
    listeners,      \* the event types for which the handlers are attached to window
    destroyed,      \* history: destroy() has been called
    op,             \* history: the last operation, [name, code, dt]
    calls,          \* history: the calls the last operation made on controlledPawn
    ret,            \* history: what the last operation returned
    rawDirection,   \* history: moveDirection of the last update before normalize()
    before,         \* history: inputState as it was before the last operation
    atDestroy,      \* history: inputState as it was at the last destroy() call
    lastKey,        \* history, kept under SpecLive: per action, the kind of the
                    \* most recent key event for a key bound to it
    held            \* history, kept under SpecKeyboard: the keys physically down

vars == <<inputState, listeners, destroyed, op, calls, ret, rawDirection, before,
          atDestroy, lastKey, held>>

\* ---------------------------------------------------------------- bounds
MaxDt == 2

\* how many keys are physically down at once under SpecKeyboard
MaxHeld == 2

Dts == 0 .. MaxDt

\* ---------------------------------------------------------------- data
Flags == {"forward", "backward", "left", "right", "jump", "shoot"}

\* event.code values: the eleven codes the handlers name and two they do not
Codes == {"KeyW", "ArrowUp", "KeyS", "ArrowDown", "KeyA", "ArrowLeft",
          "KeyD", "ArrowRight", "Space", "Mouse0", "Enter", "KeyQ", "Escape"}

\* what the pawn's shoot() may return: a hit, or nothing hit
HitscanResults == {"hit", "undefined"}

moveSpeed == [num |-> 5, den |-> 1]

airControlModifier == [num |-> 1, den |-> 2]

RatMul(a, b) == [num |-> a.num * b.num, den |-> a.den * b.den]

RatEq(a, b) == a.num * b.den = b.num * a.den

Vector3D(x, y, z) == [x |-> x, y |-> y, z |-> z, d |-> 1]

\* v / |v| : (x,y,z)/sqrt(d) divided by sqrt(x^2+y^2+z^2)/sqrt(d)
normalize(v) ==
    LET len2 == v.x * v.x + v.y * v.y + v.z * v.z
    IN  IF len2 = 0 THEN v ELSE [v EXCEPT !.d = len2]

\* squared magnitude of a vector, as a rational
MagnitudeSq(v) == [num |-> v.x * v.x + v.y * v.y + v.z * v.z, den |-> v.d]

initialInputState ==
    [forward |-> FALSE, backward |-> FALSE, left |-> FALSE,
     right |-> FALSE, jump |-> FALSE, shoot |-> FALSE]

\* ---------------------------------------------------------------- listeners
startListening(ls) == ls \cup {"keydown", "keyup"}

stopListening_keydownOnly(ls) == ls \ {"keydown"}

stopListening(ls) == ls \ {"keydown", "keyup"}

\* ---------------------------------------------------------------- handlers
onKeyDown_fallThrough(is, code) ==
    CASE code \in {"KeyW", "ArrowUp"}      -> [is EXCEPT !.forward = TRUE, !.backward = TRUE]
      [] code \in {"KeyS", "ArrowDown"}    -> [is EXCEPT !.backward = TRUE]
      [] code \in {"KeyA", "ArrowLeft"}    -> [is EXCEPT !.left = TRUE]
      [] code \in {"KeyD", "ArrowRight"}   -> [is EXCEPT !.right = TRUE]
      [] code = "Space"                    -> [is EXCEPT !.jump = TRUE]
      [] code \in {"Mouse0", "Enter"}      -> [is EXCEPT !.shoot = TRUE]
      [] OTHER                             -> is

onKeyDown_toggle(is, code) ==
    CASE code \in {"KeyW", "ArrowUp"}      -> [is EXCEPT !.forward = ~@]
      [] code \in {"KeyS", "ArrowDown"}    -> [is EXCEPT !.backward = ~@]
      [] code \in {"KeyA", "ArrowLeft"}    -> [is EXCEPT !.left = ~@]
      [] code \in {"KeyD", "ArrowRight"}   -> [is EXCEPT !.right = ~@]
      [] code = "Space"                    -> [is EXCEPT !.jump = ~@]
      [] code \in {"Mouse0", "Enter"}      -> [is EXCEPT !.shoot = ~@]
      [] OTHER                             -> is

onKeyDown(is, code) ==
    CASE code \in {"KeyW", "ArrowUp"}      -> [is EXCEPT !.forward = TRUE]
      [] code \in {"KeyS", "ArrowDown"}    -> [is EXCEPT !.backward = TRUE]
      [] code \in {"KeyA", "ArrowLeft"}    -> [is EXCEPT !.left = TRUE]
      [] code \in {"KeyD", "ArrowRight"}   -> [is EXCEPT !.right = TRUE]
      [] code = "Space"                    -> [is EXCEPT !.jump = TRUE]
      [] code \in {"Mouse0", "Enter"}      -> [is EXCEPT !.shoot = TRUE]
      [] OTHER                             -> is

onKeyUp_noArrows(is, code) ==
    CASE code = "KeyW"                     -> [is EXCEPT !.forward = FALSE]
      [] code = "KeyS"                     -> [is EXCEPT !.backward = FALSE]
      [] code = "KeyA"                     -> [is EXCEPT !.left = FALSE]
      [] code = "KeyD"                     -> [is EXCEPT !.right = FALSE]
      [] code = "Space"                    -> [is EXCEPT !.jump = FALSE]
      [] code \in {"Mouse0", "Enter"}      -> [is EXCEPT !.shoot = FALSE]
      [] OTHER                             -> is

onKeyUp_defaultResets(is, code) ==
    CASE code \in {"KeyW", "ArrowUp"}      -> [is EXCEPT !.forward = FALSE]
      [] code \in {"KeyS", "ArrowDown"}    -> [is EXCEPT !.backward = FALSE]
      [] code \in {"KeyA", "ArrowLeft"}    -> [is EXCEPT !.left = FALSE]
      [] code \in {"KeyD", "ArrowRight"}   -> [is EXCEPT !.right = FALSE]
      [] code = "Space"                    -> [is EXCEPT !.jump = FALSE]
      [] code \in {"Mouse0", "Enter"}      -> [is EXCEPT !.shoot = FALSE]
      [] OTHER                             -> initialInputState

onKeyUp(is, code) ==
    CASE code \in {"KeyW", "ArrowUp"}      -> [is EXCEPT !.forward = FALSE]
      [] code \in {"KeyS", "ArrowDown"}    -> [is EXCEPT !.backward = FALSE]
      [] code \in {"KeyA", "ArrowLeft"}    -> [is EXCEPT !.left = FALSE]
      [] code \in {"KeyD", "ArrowRight"}   -> [is EXCEPT !.right = FALSE]
      [] code = "Space"                    -> [is EXCEPT !.jump = FALSE]
      [] code \in {"Mouse0", "Enter"}      -> [is EXCEPT !.shoot = FALSE]
      [] OTHER                             -> is

\* ---------------------------------------------------------------- manual calls
moveForward_toggle(is) == [is EXCEPT !.forward = ~@]

moveForward(is) == [is EXCEPT !.forward = TRUE]

moveBackward(is) == [is EXCEPT !.backward = TRUE]

moveLeft(is) == [is EXCEPT !.left = TRUE]

moveRight(is) == [is EXCEPT !.right = TRUE]

\* jump(): the calls made on the pawn and the value returned, given canJump()'s answer
jump_ungated(canJump) ==
    [calls |-> <<[m |-> "canJump", ret |-> canJump], [m |-> "jump"]>>, ret |-> TRUE]

jump(canJump) ==
    IF canJump
    THEN [calls |-> <<[m |-> "canJump", ret |-> TRUE], [m |-> "jump"]>>, ret |-> TRUE]
    ELSE [calls |-> <<[m |-> "canJump", ret |-> FALSE]>>, ret |-> FALSE]

\* shoot(): given canShoot()'s answer and what the pawn's shoot() returns if called
shoot_dropsResult(canShoot, result) ==
    IF canShoot
    THEN [calls |-> <<[m |-> "canShoot", ret |-> TRUE], [m |-> "shoot", ret |-> result]>>,
          ret |-> "undefined"]
    ELSE [calls |-> <<[m |-> "canShoot", ret |-> FALSE]>>, ret |-> "undefined"]

shoot(canShoot, result) ==
    IF canShoot
    THEN [calls |-> <<[m |-> "canShoot", ret |-> TRUE], [m |-> "shoot", ret |-> result]>>,
          ret |-> result]
    ELSE [calls |-> <<[m |-> "canShoot", ret |-> FALSE]>>, ret |-> "undefined"]

\* ---------------------------------------------------------------- update
\* handleMovement, first half: the accumulator before normalize()
moveDirection_swapped(is) ==
    LET v0 == Vector3D(0, 0, 0)
        v1 == IF is.forward  THEN [v0 EXCEPT !.z = @ + 1] ELSE v0
        v2 == IF is.backward THEN [v1 EXCEPT !.z = @ - 1] ELSE v1
        v3 == IF is.right    THEN [v2 EXCEPT !.x = @ - 1] ELSE v2
        v4 == IF is.left     THEN [v3 EXCEPT !.x = @ + 1] ELSE v3
    IN  v4

moveDirection_assign(is) ==
    LET v0 == Vector3D(0, 0, 0)
        v1 == IF is.forward  THEN [v0 EXCEPT !.z = @ + 1] ELSE v0
        v2 == IF is.backward THEN [v1 EXCEPT !.z = -1] ELSE v1
        v3 == IF is.right    THEN [v2 EXCEPT !.x = @ + 1] ELSE v2
        v4 == IF is.left     THEN [v3 EXCEPT !.x = -1] ELSE v3
    IN  v4

moveDirection(is) ==
    LET v0 == Vector3D(0, 0, 0)
        v1 == IF is.forward  THEN [v0 EXCEPT !.z = @ + 1] ELSE v0
        v2 == IF is.backward THEN [v1 EXCEPT !.z = @ - 1] ELSE v1
        v3 == IF is.right    THEN [v2 EXCEPT !.x = @ + 1] ELSE v2
        v4 == IF is.left     THEN [v3 EXCEPT !.x = @ - 1] ELSE v3
    IN  v4

\* handleMovement: the calls made on the pawn, given isOnGround()'s answer
handleMovement_xOnly(is, dt, onGround) ==
    LET d == moveDirection(is)
    IN  IF d.x # 0
        THEN <<[m |-> "isOnGround", ret |-> onGround],
               [m |-> "move", direction |-> normalize(d),
                speed |-> IF onGround THEN moveSpeed
                          ELSE RatMul(moveSpeed, airControlModifier),
                dt |-> dt]>>
        ELSE <<>>

handleMovement_noNormalize(is, dt, onGround) ==
    LET d == moveDirection(is)
    IN  IF d.x # 0 \/ d.z # 0
        THEN <<[m |-> "isOnGround", ret |-> onGround],
               [m |-> "move", direction |-> d,
                speed |-> IF onGround THEN moveSpeed
                          ELSE RatMul(moveSpeed, airControlModifier),
                dt |-> dt]>>
        ELSE <<>>

handleMovement_swappedSpeed(is, dt, onGround) ==
    LET d == moveDirection(is)
    IN  IF d.x # 0 \/ d.z # 0
        THEN <<[m |-> "isOnGround", ret |-> onGround],
               [m |-> "move", direction |-> normalize(d),
                speed |-> IF onGround THEN RatMul(moveSpeed, airControlModifier)
                          ELSE moveSpeed,
                dt |-> dt]>>
        ELSE <<>>

handleMovement_fixedStep(is, dt, onGround) ==
    LET d == moveDirection(is)
    IN  IF d.x # 0 \/ d.z # 0
        THEN <<[m |-> "isOnGround", ret |-> onGround],
               [m |-> "move", direction |-> normalize(d),
                speed |-> IF onGround THEN moveSpeed
                          ELSE RatMul(moveSpeed, airControlModifier),
                dt |-> 1]>>
        ELSE <<>>

handleMovement(is, dt, onGround) ==
    LET d == moveDirection(is)
    IN  IF d.x # 0 \/ d.z # 0
        THEN <<[m |-> "isOnGround", ret |-> onGround],
               [m |-> "move", direction |-> normalize(d),
                speed |-> IF onGround THEN moveSpeed
                          ELSE RatMul(moveSpeed, airControlModifier),
                dt |-> dt]>>
        ELSE <<>>

\* handleActions: the calls made on the pawn
handleActions_shootTwice(is, canJump, canShoot, result) ==
    (IF is.jump THEN jump(canJump).calls ELSE <<>>)
    \o (IF is.shoot THEN shoot(canShoot, result).calls \o shoot(canShoot, result).calls
        ELSE <<>>)

handleActions_elseIf(is, canJump, canShoot, result) ==
    IF is.jump THEN jump(canJump).calls
    ELSE IF is.shoot THEN shoot(canShoot, result).calls ELSE <<>>

handleActions(is, canJump, canShoot, result) ==
    (IF is.jump THEN jump(canJump).calls ELSE <<>>)
    \o (IF is.shoot THEN shoot(canShoot, result).calls ELSE <<>>)

\* ---------------------------------------------------------------- actions
Op(name, code, dt) == [name |-> name, code |-> code, dt |-> dt]

Init ==
    /\ inputState = initialInputState
    /\ listeners = startListening({})
    /\ destroyed = FALSE
    /\ op = Op("constructor", "", 0)
    /\ calls = <<>>
    /\ ret = "void"
    /\ rawDirection = Vector3D(0, 0, 0)
    /\ before = initialInputState
    /\ atDestroy = initialInputState
    /\ lastKey = [f \in Flags |-> "none"]
    /\ held = {}

Update_resetsShoot ==
    \E dt \in Dts, onGround \in BOOLEAN, canJump \in BOOLEAN,
       canShoot \in BOOLEAN, result \in HitscanResults :
        /\ calls' = handleMovement(inputState, dt, onGround)
                    \o handleActions(inputState, canJump, canShoot, result)
        /\ rawDirection' = moveDirection(inputState)
        /\ op' = Op("update", "", dt)
        /\ ret' = "void"
        /\ before' = inputState
        /\ inputState' = [inputState EXCEPT !.shoot = FALSE]
        /\ UNCHANGED <<listeners, destroyed, atDestroy, lastKey, held>>

Update ==
    \E dt \in Dts, onGround \in BOOLEAN, canJump \in BOOLEAN,
       canShoot \in BOOLEAN, result \in HitscanResults :
        /\ calls' = handleMovement(inputState, dt, onGround)
                    \o handleActions(inputState, canJump, canShoot, result)
        /\ rawDirection' = moveDirection(inputState)
        /\ op' = Op("update", "", dt)
        /\ ret' = "void"
        /\ before' = inputState
        /\ UNCHANGED <<inputState, listeners, destroyed, atDestroy, lastKey, held>>

Destroy_resetsState ==
    /\ listeners' = stopListening(listeners)
    /\ destroyed' = TRUE
    /\ op' = Op("destroy", "", 0)
    /\ calls' = <<>>
    /\ ret' = "void"
    /\ rawDirection' = Vector3D(0, 0, 0)
    /\ before' = inputState
    /\ atDestroy' = inputState
    /\ inputState' = initialInputState
    /\ UNCHANGED <<lastKey, held>>

Destroy ==
    /\ listeners' = stopListening(listeners)
    /\ destroyed' = TRUE
    /\ op' = Op("destroy", "", 0)
    /\ calls' = <<>>
    /\ ret' = "void"
    /\ rawDirection' = Vector3D(0, 0, 0)
    /\ before' = inputState
    /\ atDestroy' = inputState
    /\ UNCHANGED <<inputState, lastKey, held>>

Manual(name, newState) ==
    /\ inputState' = newState
    /\ op' = Op(name, "", 0)
    /\ calls' = <<>>
    /\ ret' = "void"
    /\ rawDirection' = Vector3D(0, 0, 0)
    /\ before' = inputState
    /\ UNCHANGED <<listeners, destroyed, atDestroy, lastKey, held>>

MoveForward == Manual("moveForward", moveForward(inputState))

MoveBackward == Manual("moveBackward", moveBackward(inputState))

MoveLeft == Manual("moveLeft", moveLeft(inputState))

MoveRight == Manual("moveRight", moveRight(inputState))

Jump ==
    \E canJump \in BOOLEAN :
        /\ calls' = jump(canJump).calls
        /\ ret' = jump(canJump).ret
        /\ op' = Op("jump", "", 0)
        /\ rawDirection' = Vector3D(0, 0, 0)
        /\ before' = inputState
        /\ UNCHANGED <<inputState, listeners, destroyed, atDestroy, lastKey, held>>

Shoot ==
    \E canShoot \in BOOLEAN, result \in HitscanResults :
        /\ calls' = shoot(canShoot, result).calls
        /\ ret' = shoot(canShoot, result).ret
        /\ op' = Op("shoot", "", 0)
        /\ rawDirection' = Vector3D(0, 0, 0)
        /\ before' = inputState
        /\ UNCHANGED <<inputState, listeners, destroyed, atDestroy, lastKey, held>>

KeyDownEvent_jumpsOnPress ==
    \E code \in Codes, canJump \in BOOLEAN :
        /\ inputState' = IF "keydown" \in listeners
                         THEN onKeyDown(inputState, code) ELSE inputState
        /\ op' = Op("keydown", code, 0)
        /\ calls' = IF "keydown" \in listeners /\ code = "Space"
                    THEN jump(canJump).calls ELSE <<>>
        /\ ret' = "void"
        /\ rawDirection' = Vector3D(0, 0, 0)
        /\ before' = inputState
        /\ UNCHANGED <<listeners, destroyed, atDestroy, lastKey, held>>

\* the platform dispatches a keydown event with this code on window
KeyDown(code) ==
    /\ inputState' = IF "keydown" \in listeners
                     THEN onKeyDown(inputState, code) ELSE inputState
    /\ op' = Op("keydown", code, 0)
    /\ calls' = <<>>
    /\ ret' = "void"
    /\ rawDirection' = Vector3D(0, 0, 0)
    /\ before' = inputState
    /\ UNCHANGED <<listeners, destroyed, atDestroy>>

KeyDownEvent ==
    \E code \in Codes :
        /\ KeyDown(code)
        /\ UNCHANGED <<lastKey, held>>

\* the platform dispatches a keyup event with this code on window
KeyUp(code) ==
    /\ inputState' = IF "keyup" \in listeners
                     THEN onKeyUp(inputState, code) ELSE inputState
    /\ op' = Op("keyup", code, 0)
    /\ calls' = <<>>
    /\ ret' = "void"
    /\ rawDirection' = Vector3D(0, 0, 0)
    /\ before' = inputState
    /\ UNCHANGED <<listeners, destroyed, atDestroy>>

KeyUpEvent ==
    \E code \in Codes :
        /\ KeyUp(code)
        /\ UNCHANGED <<lastKey, held>>

Next ==
    \/ Update
    \/ Destroy
    \/ MoveForward
    \/ MoveBackward
    \/ MoveLeft
    \/ MoveRight
    \/ Jump
    \/ Shoot
    \/ KeyDownEvent
    \/ KeyUpEvent

Spec == Init /\ [][Next]_vars

\* ---------------------------------------------------------------- observers
Count(m) == Cardinality({i \in DOMAIN calls : calls[i].m = m})

Moves == {i \in DOMAIN calls : calls[i].m = "move"}

TypeOK ==
    /\ inputState \in [Flags -> BOOLEAN]
    /\ before \in [Flags -> BOOLEAN]
    /\ listeners \subseteq {"keydown", "keyup"}
    /\ destroyed \in BOOLEAN
    /\ op.dt \in Dts
    /\ atDestroy \in [Flags -> BOOLEAN]
    /\ lastKey \in [Flags -> {"none", "down", "up"}]
    /\ held \subseteq Codes /\ Cardinality(held) <= MaxHeld

B(flag) == IF flag THEN 1 ELSE 0

\* the call on the pawn that asked m, when the last operation asked it once
TheCall(m) == calls[CHOOSE i \in DOMAIN calls : calls[i].m = m]

\* section 4.1 of the specification: the key-to-action table
BoundAction(code) ==
    CASE code \in {"KeyW", "ArrowUp"}      -> "forward"
      [] code \in {"KeyS", "ArrowDown"}    -> "backward"
      [] code \in {"KeyA", "ArrowLeft"}    -> "left"
      [] code \in {"KeyD", "ArrowRight"}   -> "right"
      [] code = "Space"                    -> "jump"
      [] code \in {"Mouse0", "Enter"}      -> "shoot"
      [] OTHER                             -> "none"

IsKeyEvent(o) == o.name \in {"keydown", "keyup"}

\* ---------------------------------------------------------------- a live controller
\* SpecLive: a controller that is never destroyed and is driven only by key
\* events (any code, any order) and update calls.  lastKey records, per
\* action of the key-to-action table, the most recent event for a bound key.
Observe(lk, code, kind) ==
    IF BoundAction(code) = "none" THEN lk
    ELSE [lk EXCEPT ![BoundAction(code)] = kind]

ObservedKeyDown ==
    \E code \in Codes :
        /\ KeyDown(code)
        /\ lastKey' = Observe(lastKey, code, "down")
        /\ UNCHANGED held

ObservedKeyUp ==
    \E code \in Codes :
        /\ KeyUp(code)
        /\ lastKey' = Observe(lastKey, code, "up")
        /\ UNCHANGED held

NextLive ==
    \/ Update
    \/ ObservedKeyDown
    \/ ObservedKeyUp

SpecLive == Init /\ [][NextLive]_vars

\* ---------------------------------------------------------------- a physical keyboard
\* SpecKeyboard: a live controller behind a keyboard (and mouse button) that
\* delivers a keydown when a key goes down and a keyup when it goes up; at
\* most MaxHeld keys are down at once.
PressKey ==
    \E code \in Codes \ held :
        /\ Cardinality(held) < MaxHeld
        /\ KeyDown(code)
        /\ held' = held \cup {code}
        /\ UNCHANGED lastKey

ReleaseKey ==
    \E code \in held :
        /\ KeyUp(code)
        /\ held' = held \ {code}
        /\ UNCHANGED lastKey

NextKeyboard ==
    \/ Update
    \/ PressKey
    \/ ReleaseKey

SpecKeyboard == Init /\ [][NextKeyboard]_vars

\* ---------------------------------------------------------------- claims

\* C1: one update call issues at most one move command, makes at most one
\* jump attempt (canJump query, hence at most one jump command) and at most
\* one shoot attempt (canShoot query, hence at most one shot command).
C1_AtMostOneOfEach ==
    op.name = "update" =>
        /\ Count("move") <= 1
        /\ Count("canJump") <= 1 /\ Count("jump") <= 1
        /\ Count("canShoot") <= 1 /\ Count("shoot") <= 1

C1_Witness ==
    /\ op.name = "update"
    /\ Count("move") = 1 /\ Count("jump") = 1 /\ Count("shoot") = 1

\* C2: the direction update accumulates before normalisation is
\* (right - left, 0, forward - backward), every component in {-1, 0, 1}.
C2_DirectionIsSumOfAxes ==
    op.name = "update" =>
        /\ rawDirection.z = B(inputState.forward) - B(inputState.backward)
        /\ rawDirection.x = B(inputState.right) - B(inputState.left)
        /\ rawDirection.y = 0
        /\ rawDirection.d = 1
        /\ rawDirection.x \in {-1, 0, 1} /\ rawDirection.z \in {-1, 0, 1}

C2_Witness ==
    /\ op.name = "update"
    /\ inputState.forward /\ ~inputState.backward
    /\ inputState.left /\ ~inputState.right
    /\ rawDirection.x = -1 /\ rawDirection.z = 1

\* C3: update issues exactly one move command (normalised direction, speed,
\* the dt it was given) when some axis has a non-zero net contribution, and
\* no move command when both axes net to zero.
C3_MoveIffNonZero ==
    op.name = "update" =>
        LET netZ == B(inputState.forward) - B(inputState.backward)
            netX == B(inputState.right) - B(inputState.left)
        IN  IF netZ # 0 \/ netX # 0
            THEN /\ Count("move") = 1
                 /\ TheCall("move").dt = op.dt
                 /\ TheCall("move").direction.x = netX
                 /\ TheCall("move").direction.z = netZ
                 /\ TheCall("move").direction.y = 0
                 /\ TheCall("move").speed.num > 0
            ELSE Count("move") = 0

C3_Witness ==
    /\ op.name = "update"
    /\ inputState.forward /\ ~inputState.backward
    /\ ~inputState.left /\ ~inputState.right
    /\ Count("move") = 1

\* C4: every direction passed to move has magnitude exactly 1 (squared
\* magnitude 1), for diagonal and cardinal input alike.
C4_UnitDirection ==
    \A i \in Moves :
        /\ MagnitudeSq(calls[i].direction).num = MagnitudeSq(calls[i].direction).den
        /\ MagnitudeSq(calls[i].direction).den > 0

C4_Witness ==
    /\ op.name = "update"
    /\ Count("move") = 1
    /\ rawDirection.x # 0 /\ rawDirection.z # 0

\* C5 as stated: whenever forward and backward are both held, or left and
\* right are both held, update computes the zero vector and issues no move.
C5_Original ==
    (op.name = "update"
       /\ \/ inputState.forward /\ inputState.backward
          \/ inputState.left /\ inputState.right)
    => /\ rawDirection.x = 0 /\ rawDirection.z = 0
       /\ Count("move") = 0

\* C5 amended: a pair of opposite keys held together nets its own axis to
\* zero; the vector is zero and no move is issued exactly when the other
\* axis nets to zero as well.
C5_OppositeKeysCancelOnTheirAxis ==
    op.name = "update" =>
        /\ (inputState.forward /\ inputState.backward) =>
               /\ rawDirection.z = 0
               /\ (Count("move") = 0) <=> (inputState.left = inputState.right)
        /\ (inputState.left /\ inputState.right) =>
               /\ rawDirection.x = 0
               /\ (Count("move") = 0) <=> (inputState.forward = inputState.backward)

C5_Witness ==
    /\ op.name = "update"
    /\ inputState.forward /\ inputState.backward
    /\ ~inputState.left /\ ~inputState.right
    /\ Count("move") = 0

\* C6: the speed of a move command is moveSpeed when isOnGround() answered
\* true at that update and moveSpeed * airControlModifier (5/2 with the
\* defaults) when it answered false.
C6_SpeedByGroundContact ==
    op.name = "update" =>
        \A i \in Moves :
            /\ Count("isOnGround") = 1
            /\ TheCall("isOnGround").ret =>
                   RatEq(calls[i].speed, moveSpeed)
            /\ ~TheCall("isOnGround").ret =>
                   /\ RatEq(calls[i].speed, RatMul(moveSpeed, airControlModifier))
                   /\ RatEq(calls[i].speed, [num |-> 5, den |-> 2])

C6_Witness ==
    /\ op.name = "update"
    /\ Count("move") = 1
    /\ ~TheCall("isOnGround").ret
    /\ inputState.left /\ ~inputState.forward

\* C7: jump() asks canJump() once; on false it returns false and issues no
\* jump command, on true it returns true and issues exactly one; it changes
\* no flag.
C7_JumpGated ==
    op.name = "jump" =>
        /\ Count("canJump") = 1
        /\ ~TheCall("canJump").ret => (ret = FALSE /\ Count("jump") = 0)
        /\ TheCall("canJump").ret => (ret = TRUE /\ Count("jump") = 1)
        /\ inputState = before

C7_Witness ==
    /\ op.name = "jump"
    /\ ~TheCall("canJump").ret
    /\ ret = FALSE
    /\ inputState.jump

\* C8: shoot() issues exactly one shot and returns its result when
\* canShoot() answers true; it issues none and returns undefined otherwise.
C8_ShootGated ==
    op.name = "shoot" =>
        /\ Count("canShoot") = 1
        /\ TheCall("canShoot").ret =>
               (Count("shoot") = 1 /\ ret = TheCall("shoot").ret)
        /\ ~TheCall("canShoot").ret =>
               (Count("shoot") = 0 /\ ret = "undefined")

C8_Witness ==
    /\ op.name = "shoot"
    /\ Count("shoot") = 1
    /\ ret = "hit"

\* C9: once destroy() has been called, no key-down or key-up event the
\* platform delivers changes any of the six flags.
C9_NoFlagChangeAfterDestroy ==
    [][(destroyed /\ IsKeyEvent(op')) => inputState' = inputState]_vars

C9_Witness ==
    /\ destroyed
    /\ op.name = "keydown" /\ op.code = "KeyW"
    /\ ~inputState.forward
    /\ inputState.jump

\* C10: a key event the handlers receive changes no flag but the one its key
\* is bound to, and a key-down followed by the key-up of the same bound key
\* leaves that flag false and the other five as they were before the
\* key-down.
C10_DownThenUp ==
    [][ /\ IsKeyEvent(op') =>
             \A f \in Flags \ {BoundAction(op'.code)} :
                 inputState'[f] = inputState[f]
        /\ ( /\ ~destroyed
             /\ op.name = "keydown" /\ op'.name = "keyup"
             /\ op'.code = op.code
             /\ BoundAction(op.code) # "none" ) =>
             /\ inputState'[BoundAction(op.code)] = FALSE
             /\ \A f \in Flags \ {BoundAction(op.code)} :
                    inputState'[f] = before[f]
      ]_vars

C10_Witness ==
    /\ ~destroyed
    /\ op.name = "keyup" /\ op.code = "KeyW"
    /\ before.forward /\ ~inputState.forward
    /\ inputState.shoot /\ inputState.left

\* C11: jump and shoot are level-triggered: every update made while the jump
\* flag is true asks canJump(), every update made while the shoot flag is
\* true asks canShoot(), with or without a move command, and update leaves
\* both flags as they were.
C11_LevelTriggered ==
    op.name = "update" =>
        /\ inputState.jump = before.jump /\ inputState.shoot = before.shoot
        /\ before.jump => Count("canJump") = 1
        /\ before.shoot => Count("canShoot") = 1
        /\ (before.jump /\ TheCall("canJump").ret) => Count("jump") = 1
        /\ (before.shoot /\ TheCall("canShoot").ret) => Count("shoot") = 1

C11_Witness ==
    /\ op.name = "update" /\ before.jump /\ before.shoot
    /\ inputState.jump /\ inputState.shoot
    /\ Count("move") = 1
    /\ Count("canJump") = 1 /\ Count("canShoot") = 1

\* C12: the dt of a move command issued by update(dt) is the dt given to
\* update, so update(0) commands the displacement speed * 0 = 0.
C12_ZeroDtZeroDisplacement ==
    op.name = "update" =>
        \A i \in Moves :
            /\ calls[i].dt = op.dt
            /\ op.dt = 0 => calls[i].speed.num * calls[i].dt = 0

C12_Witness ==
    /\ op.name = "update" /\ op.dt = 0
    /\ inputState.forward /\ inputState.right
    /\ Count("move") = 1

\* C13: moveForward / moveBackward / moveLeft / moveRight set their own flag
\* true, leave the other five alone and call nothing on the pawn; a flag that
\* is true stays true through every step that is not a key-up event for a
\* key bound to it.
C13_ManualSetsAndLatches ==
    [][ /\ op'.name = "moveForward" =>
             inputState' = [inputState EXCEPT !.forward = TRUE] /\ calls' = <<>>
        /\ op'.name = "moveBackward" =>
             inputState' = [inputState EXCEPT !.backward = TRUE] /\ calls' = <<>>
        /\ op'.name = "moveLeft" =>
             inputState' = [inputState EXCEPT !.left = TRUE] /\ calls' = <<>>
        /\ op'.name = "moveRight" =>
             inputState' = [inputState EXCEPT !.right = TRUE] /\ calls' = <<>>
        /\ \A f \in {"forward", "backward", "left", "right"} :
             ( /\ inputState[f]
               /\ ~(op'.name = "keyup" /\ BoundAction(op'.code) = f) )
             => inputState'[f]
      ]_vars

C13_Witness ==
    /\ op.name = "moveForward"
    /\ ~before.forward /\ inputState.forward
    /\ inputState.jump /\ ~inputState.left

\* C14: a key-down for a key whose flag is already true and a key-up for a
\* key whose flag is already false leave the six flags as they are, so the
\* same event twice in a row gives the state it gave once.
C14_KeyEventsIdempotent ==
    [][ /\ ( /\ op'.name = "keydown" /\ BoundAction(op'.code) # "none"
             /\ inputState[BoundAction(op'.code)] )
           => inputState' = inputState
        /\ ( /\ op'.name = "keyup" /\ BoundAction(op'.code) # "none"
             /\ ~inputState[BoundAction(op'.code)] )
           => inputState' = inputState
        /\ (IsKeyEvent(op) /\ op' = op) => inputState' = inputState
      ]_vars

C14_Witness ==
    /\ ~destroyed
    /\ op.name = "keydown" /\ op.code = "KeyW"
    /\ before.forward /\ inputState.forward

\* C15: a key event whose code is not in the key-to-action table changes no
\* flag and calls nothing on the pawn.
C15_UnknownCodeIgnored ==
    (IsKeyEvent(op) /\ BoundAction(op.code) = "none") =>
        /\ inputState = before
        /\ calls = <<>>
        /\ ret = "void"

C15_Witness ==
    /\ ~destroyed
    /\ op.name = "keyup" /\ op.code = "KeyQ"
    /\ inputState.forward /\ inputState.shoot

\* C16: no call reaches the pawn during a key event; calls on the pawn are
\* made only by update, jump() and shoot().
C16_EventsIssueNoCommands ==
    /\ IsKeyEvent(op) => calls = <<>>
    /\ calls # <<>> => op.name \in {"update", "jump", "shoot"}

C16_Witness ==
    /\ ~destroyed
    /\ op.name = "keydown" /\ op.code = "Space"
    /\ ~before.jump /\ inputState.jump
    /\ calls = <<>>

\* C17 as stated: the flags start false and every operation other than the
\* two key handlers leaves all six flags unchanged.
C17_Original ==
    /\ op.name = "constructor" => inputState = initialInputState
    /\ ~IsKeyEvent(op) /\ op.name # "constructor" => inputState = before

\* C17 amended: the flags start false; update, jump, shoot and destroy leave
\* all six unchanged; each manual call sets exactly its own flag.
C17_OnlyHandlersAndManualCallsWrite ==
    /\ op.name = "constructor" =>
           \A f \in Flags : inputState[f] = FALSE
    /\ op.name \in {"update", "jump", "shoot", "destroy"} => inputState = before
    /\ op.name = "moveForward" => inputState = [before EXCEPT !.forward = TRUE]
    /\ op.name = "moveBackward" => inputState = [before EXCEPT !.backward = TRUE]
    /\ op.name = "moveLeft" => inputState = [before EXCEPT !.left = TRUE]
    /\ op.name = "moveRight" => inputState = [before EXCEPT !.right = TRUE]

C17_Witness ==
    /\ op.name = "update"
    /\ inputState.shoot /\ Count("shoot") = 1
    /\ inputState.forward

\* C18: on a live controller driven by key events and update calls, a flag is
\* true exactly when the most recent key event for a key bound to its action
\* was a key-down, and false when there has been none.
C18_FlagIsLatestEvent ==
    ~destroyed =>
        \A f \in Flags : inputState[f] <=> (lastKey[f] = "down")

C18_Witness ==
    /\ ~destroyed
    /\ op.name = "update"
    /\ lastKey.forward = "up" /\ ~inputState.forward
    /\ lastKey.left = "down" /\ inputState.left
    /\ lastKey.jump = "none" /\ ~inputState.jump

\* C19: on a live controller behind a keyboard that reports every press and
\* release, a flag is true exactly when some key bound to its action is
\* physically down.
C19_FlagIffSomeBoundKeyHeld ==
    \A f \in Flags :
        inputState[f] <=> (\E k \in held : BoundAction(k) = f)

\* C20 as stated: after destroy() every flag that was true at destroy() is
\* still true, every update issues the move command / jump attempt / shoot
\* attempt of each such flag, and an update calls nothing on the pawn only
\* if all flags were false at destroy().
C20_Original ==
    destroyed =>
        /\ \A f \in Flags : atDestroy[f] => inputState[f]
        /\ op.name = "update" =>
              /\ (\E f \in {"forward", "backward", "left", "right"} : atDestroy[f])
                     => Count("move") = 1
              /\ atDestroy.jump => Count("canJump") = 1
              /\ atDestroy.shoot => Count("canShoot") = 1
              /\ calls = <<>> => \A f \in Flags : ~atDestroy[f]

\* C20 amended: after destroy() every flag that was true at destroy() is
\* still true; every update makes a jump attempt if jump was held at
\* destroy(), a shoot attempt if shoot was held, and issues a move command
\* exactly when the direction flags do not cancel; an update calls nothing
\* on the pawn only if jump and shoot were false at destroy() and the
\* direction flags net to zero on both axes.
C20_FlagsSurviveDestroy ==
    destroyed =>
        /\ \A f \in Flags : atDestroy[f] => inputState[f]
        /\ inputState.jump = atDestroy.jump /\ inputState.shoot = atDestroy.shoot
        /\ op.name = "update" =>
              /\ (Count("move") = 1) <=>
                     \/ inputState.forward # inputState.backward
                     \/ inputState.left # inputState.right
              /\ atDestroy.jump => Count("canJump") = 1
              /\ atDestroy.shoot => Count("canShoot") = 1
              /\ calls = <<>> =>
                     /\ ~atDestroy.jump /\ ~atDestroy.shoot
                     /\ inputState.forward = inputState.backward
                     /\ inputState.left = inputState.right

C20_Witness ==
    /\ destroyed
    /\ op.name = "update"
    /\ atDestroy.forward /\ ~inputState.backward
    /\ atDestroy.jump
    /\ Count("move") = 1 /\ Count("canJump") = 1

====
